---- MODULE Spec2Model ----
(***************************************************************************)
(* Model of backend.py: a process-wide table (uploaded_data) replaced by   *)
(* POST /upload (upload_file) and read by GET /summary/{user_id}           *)
(* (get_user_summary).                                                     *)
(*                                                                         *)
(* Representation.  A Python string is a tuple of tokens (the empty string *)
(* is <<>>), an Optional value is <<>> (None) or <<v>>.  A date string is  *)
(* <<"date", t>>, the text of the instant t hours after 2024-01-01 00:00   *)
(* ("2024-01-02" is <<"date", 24>>); pd.to_datetime maps it to the datetime*)
(* <<"datetime", t>> and raises ValueError on other strings.  A CSV file   *)
(* body is a sequence of lines, a line a sequence of cells.  Amounts are   *)
(* integers (hundredths) and a mean is the exact fraction sum/count in     *)
(* lowest terms.                                                           *)
(***************************************************************************)
EXTENDS Integers, Sequences, FiniteSets, TLC

\* ---------------------------------------------------------------- bounds
\* rows of a table, instants of a timestamp or a bound, uploads in flight
MaxRows == 2
MaxTime == 2
MaxInFlight == 2

\* ------------------------------------------------------- Python values
None == <<>>
Some(v) == <<v>>

EmptyStr == <<>>
JunkStr == <<"invalid-date">>
DateStr(t) == <<"date", t>>

\* Python truthiness of an Optional[str]: None and "" are falsy
Truthy(opt) == opt # None /\ Len(opt[1]) > 0

\* str.lower() on the characters that occur in the file names
LowerChar(c) == CASE c = "A" -> "a" [] c = "C" -> "c" [] c = "S" -> "s" [] c = "V" -> "v" [] OTHER -> c

Lower(s) == [i \in 1..Len(s) |-> LowerChar(s[i])]

EndsWith(s, suffix) == Len(s) >= Len(suffix) /\ SubSeq(s, Len(s) - Len(suffix) + 1, Len(s)) = suffix

DotCsv == <<".", "c", "s", "v">>

\* ------------------------------------------------------------- exceptions
Ok(v) == [exc |-> "", msg |-> "", ok |-> TRUE, val |-> <<v>>]
Raise(e, m) == [exc |-> e, msg |-> m, ok |-> FALSE, val |-> <<>>]

\* the except clause `except (ValueError, pd.errors.ParserError)`
IsValueOrParserError(r) == ~r.ok /\ r.exc \in {"ValueError", "ParserError"}

\* ----------------------------------------------------------- date parsing
\* pd.to_datetime on one string
Timestamp(d) == <<"datetime", d>>

\* the order of datetimes
DtLe(a, b) == a[2] <= b[2]

to_datetime(s) == IF Len(s) = 2 /\ s[1] = "date" THEN Ok(Timestamp(s[2])) ELSE Raise("ValueError", "Unknown datetime string format")

\* pd.to_datetime on a column: raises when any element does
to_datetime_col(col) ==
    IF \E i \in 1..Len(col) : ~to_datetime(col[i]).ok
    THEN Raise("ValueError", "Unknown datetime string format")
    ELSE Ok([i \in 1..Len(col) |-> to_datetime(col[i]).val[1]])

\* ------------------------------------------------------------ aggregates
RECURSIVE SeqSum(_)
SeqSum(s) == IF s = <<>> THEN 0 ELSE Head(s) + SeqSum(Tail(s))

Max2(a, b) == IF a > b THEN a ELSE b

Min2(a, b) == IF a < b THEN a ELSE b

RECURSIVE SeqMax(_)
SeqMax(s) == IF Len(s) = 1 THEN s[1] ELSE Max2(Head(s), SeqMax(Tail(s)))

RECURSIVE SeqMin(_)
SeqMin(s) == IF Len(s) = 1 THEN s[1] ELSE Min2(Head(s), SeqMin(Tail(s)))

RECURSIVE Gcd(_, _)
Gcd(a, b) == IF b = 0 THEN a ELSE Gcd(b, a % b)

\* Series.mean(): sum / count, kept as a fraction in lowest terms
Fraction(n, d, g) == [den |-> d \div g, num |-> n \div g]

SeqMean(s) == Fraction(SeqSum(s), Len(s), Gcd(SeqSum(s), Len(s)))

\* ------------------------------------------------------------- CSV bodies
\* cells of a CSV body: a column name, a decimal numeral, a date, other text
NameCell(c) == <<c>>
NumCell(k) == <<"#", k>>
BadByte == <<"0xFF">>

ColumnNames == <<"user_id", "timestamp", "transaction_amount">>

\* the header lines: every non-empty selection of the columns, in file order
Headers == {SelectSeq(ColumnNames, LAMBDA c : c \in S) : S \in (SUBSET {"user_id", "timestamp", "transaction_amount"}) \ {{}}}

\* the user ids and the amounts of user 101 in the default data of the tests
SampleUsers == {101, 102}

SampleAmounts == {7525, 10050}

\* the cells a column may hold
CellValues(c) ==
    CASE c = "user_id" -> {NumCell(k) : k \in SampleUsers}
      [] c = "transaction_amount" -> {NumCell(k) : k \in SampleAmounts}
      [] OTHER -> {DateStr(t) : t \in 1..MaxTime} \cup {JunkStr}

HeaderLine(h) == [i \in 1..Len(h) |-> NameCell(h[i])]

\* the data lines that fit header h
DataLines(h) ==
    {l \in [1..Len(h) -> UNION {CellValues(h[i]) : i \in 1..Len(h)}] :
        \A i \in 1..Len(h) : l[i] \in CellValues(h[i])}

RECURSIVE Bodies(_, _)
Bodies(h, n) ==
    IF n = 0 THEN {<<HeaderLine(h)>>}
    ELSE {Append(b, l) : b \in Bodies(h, n - 1), l \in DataLines(h)}

\* well-formed CSV bodies with 1..n data rows
TableFiles(n) == UNION {Bodies(h, k) : h \in Headers, k \in 1..n}

\* the bodies the tests upload
FixtureHeader == HeaderLine(<<"transaction_id", "user_id", "product_id", "timestamp", "transaction_amount">>)

DefaultFile ==
    <<FixtureHeader,
      <<NumCell(1), NumCell(101), NumCell(1001), DateStr(10), NumCell(10050)>>,
      <<NumCell(2), NumCell(102), NumCell(1002), DateStr(35), NumCell(25075)>>,
      <<NumCell(3), NumCell(101), NumCell(1003), DateStr(60), NumCell(7525)>>,
      <<NumCell(4), NumCell(103), NumCell(1001), DateStr(85), NumCell(30000)>>,
      <<NumCell(5), NumCell(102), NumCell(1002), DateStr(110), NumCell(15050)>>>>

SecondFile ==
    <<FixtureHeader,
      <<NumCell(10), NumCell(201), NumCell(2001), DateStr(754), NumCell(50000)>>,
      <<NumCell(11), NumCell(202), NumCell(2002), DateStr(779), NumCell(60000)>>>>

NoRequiredFile ==
    <<HeaderLine(<<"transaction_id", "product_id", "timestamp">>),
      <<NumCell(1), NumCell(1001), DateStr(10)>>,
      <<NumCell(2), NumCell(1002), DateStr(35)>>,
      <<NumCell(3), NumCell(1003), DateStr(60)>>>>

NoTimestampFile ==
    <<HeaderLine(<<"user_id", "transaction_amount", "product_id">>),
      <<NumCell(101), NumCell(10050), NumCell(1001)>>,
      <<NumCell(102), NumCell(25075), NumCell(1002)>>,
      <<NumCell(101), NumCell(7525), NumCell(1003)>>>>

\* the default data without its amounts
NoAmountFile ==
    <<HeaderLine(<<"user_id", "timestamp">>),
      <<NumCell(101), DateStr(10)>>,
      <<NumCell(102), DateStr(35)>>>>

CorruptedFile == <<HeaderLine(<<"This is not a valid CSV content">>)>>

EmptyFile == <<>>
BinaryFile == <<HeaderLine(<<"user_id">>), <<BadByte>>>>
BlankFile == <<<<>>>>
RaggedFile == <<HeaderLine(<<"user_id">>), <<NumCell(1)>>, <<NumCell(1), NumCell(1)>>>>
HeaderOnlyFiles == {CorruptedFile, <<FixtureHeader>>}

FixtureTables == {DefaultFile, SecondFile, NoRequiredFile, NoTimestampFile, NoAmountFile}

BadFiles == {EmptyFile, BinaryFile, BlankFile, RaggedFile} \cup HeaderOnlyFiles

\* bytes.decode('utf-8')
decode(content) == IF \E i \in 1..Len(content) : \E j \in 1..Len(content[i]) : content[i][j] = BadByte
                   THEN Raise("UnicodeDecodeError", "invalid start byte")
                   ELSE Ok(content)

\* type inference of read_csv: a numeral becomes an integer, other text stays
Infer(cell) == IF cell[1] = "#" THEN cell[2] ELSE cell

ColIndex(header, c) == CHOOSE i \in 1..Len(header) : header[i] = NameCell(c)

\* pd.read_csv: blank lines are skipped, the first line is the header
read_csv(text) ==
    LET lines == SelectSeq(text, LAMBDA l : Len(l) > 0)
    IN IF lines = <<>> THEN Raise("EmptyDataError", "No columns to parse from file")
       ELSE IF \E i \in 2..Len(lines) : Len(lines[i]) > Len(lines[1])
            THEN Raise("ParserError", "Error tokenizing data")
       ELSE LET header == lines[1]
                names == [i \in 1..Len(header) |-> header[i][1]]
            IN Ok([columns |-> names,
                   rows |-> [r \in 1..(Len(lines) - 1) |->
                              [c \in {names[i] : i \in 1..Len(names)} |-> Infer(lines[r + 1][ColIndex(header, c)])]]])

\* ---------------------------------------------------------- DataFrame ops
HasColumn(df, c) == \E i \in 1..Len(df.columns) : df.columns[i] = c

\* df.empty
IsEmpty(df) == Len(df.rows) = 0

Column(rows, c) == [i \in 1..Len(rows) |-> rows[i][c]]

\* user_df['timestamp'] = values
SetTimestamps(rows, values) == [i \in 1..Len(rows) |-> [rows[i] EXCEPT !["timestamp"] = values[i]]]

\* ------------------------------------------------------------ HTTP replies
HTTPException(code, detail) == [body |-> <<>>, detail |-> detail, status |-> code]
Reply(body) == [body |-> <<body>>, detail |-> <<>>, status |-> 200]

\* str(e) of an HTTPException
StrHTTP(e) == <<"400: ">> \o e.detail

\* ------------------------------------------------------- GET /summary/{id}
\* FilterFrom with the start bound exclusive
FilterFromStrict(rows, start_dt) == SelectSeq(rows, LAMBDA r : ~DtLe(r["timestamp"], start_dt))

\* lines 90-95 and 97-102: one bound of the date filter, applied to rows
\* whose timestamp column already holds datetimes
FilterFrom(rows, start_dt) == SelectSeq(rows, LAMBDA r : DtLe(start_dt, r["timestamp"]))

FilterTo(rows, end_dt) == SelectSeq(rows, LAMBDA r : DtLe(r["timestamp"], end_dt))

\* lines 111-122: the statistics of a non-empty frame
Aggregate(user_id, amounts) ==
    Reply([count |-> Len(amounts),
           max_transaction_amount |-> SeqMax(amounts),
           mean_transaction_amount |-> SeqMean(amounts),
           min_transaction_amount |-> SeqMin(amounts),
           user_id |-> user_id])

\* Statistics without the check of line 108
StatisticsNoCheck(user_id, user_df) ==
    IF Len(user_df) = 0
    THEN Reply([count |-> 0, max_transaction_amount |-> 0, mean_transaction_amount |-> Fraction(0, 1, 1),
                min_transaction_amount |-> 0, user_id |-> user_id])
    ELSE Aggregate(user_id, Column(user_df, "transaction_amount"))

\* lines 107-122: the 404 check, then the statistics
Statistics(user_id, user_df) ==
    IF Len(user_df) = 0
    THEN HTTPException(404, <<"No transactions found for this user and date range.">>)
    ELSE Aggregate(user_id, Column(user_df, "transaction_amount"))

\* lines 97-102: the end bound, end_dt being the outcome of its parse
EndFilter(user_id, user_df, end_date, end_dt) ==
    IF IsValueOrParserError(end_dt)
    THEN HTTPException(400, <<"Invalid end_date format: ">> \o end_date[1])
    ELSE Statistics(user_id, FilterTo(user_df, end_dt.val[1]))

\* lines 97-109
AfterStart(user_id, user_df, end_date) ==
    IF Truthy(end_date)
    THEN EndFilter(user_id, user_df, end_date, to_datetime(end_date[1]))
    ELSE Statistics(user_id, user_df)

\* StartFilter passing over a start bound that does not parse
StartFilterLenient(user_id, user_df, start_date, end_date, start_dt) ==
    IF IsValueOrParserError(start_dt)
    THEN AfterStart(user_id, user_df, end_date)
    ELSE AfterStart(user_id, FilterFrom(user_df, start_dt.val[1]), end_date)

\* lines 90-95: the start bound, start_dt being the outcome of its parse
StartFilter(user_id, user_df, start_date, end_date, start_dt) ==
    IF IsValueOrParserError(start_dt)
    THEN HTTPException(400, <<"Invalid start_date format: ">> \o start_date[1])
    ELSE AfterStart(user_id, FilterFrom(user_df, start_dt.val[1]), end_date)

\* Converted dropping the rows whose timestamp does not parse, as
\* pd.to_datetime(..., errors='coerce') followed by the comparisons would
ParseableRows(user_df) == SelectSeq(user_df, LAMBDA r : to_datetime(r["timestamp"]).ok)

ConvertedCoerce(user_id, user_df, start_date, end_date, conv) ==
    IF Truthy(start_date)
    THEN StartFilter(user_id, SetTimestamps(ParseableRows(user_df), to_datetime_col(Column(ParseableRows(user_df), "timestamp")).val[1]),
                     start_date, end_date, to_datetime(start_date[1]))
    ELSE AfterStart(user_id, SetTimestamps(ParseableRows(user_df), to_datetime_col(Column(ParseableRows(user_df), "timestamp")).val[1]), end_date)

\* lines 88-105: conv is the outcome of converting the timestamp column
Converted(user_id, user_df, start_date, end_date, conv) ==
    IF IsValueOrParserError(conv)
    THEN HTTPException(400, <<"Error parsing timestamp column: ", conv.msg>>)
    ELSE IF Truthy(start_date)
    THEN StartFilter(user_id, SetTimestamps(user_df, conv.val[1]), start_date, end_date, to_datetime(start_date[1]))
    ELSE AfterStart(user_id, SetTimestamps(user_df, conv.val[1]), end_date)

\* lines 85-105: the date filter on the user's rows
DateFilter(user_id, user_df, start_date, end_date) ==
    Converted(user_id, user_df, start_date, end_date, to_datetime_col(Column(user_df, "timestamp")))

\* Filtered with the check of line 108 made before the date filter
FilteredEmptyFirst(df, user_id, user_df, start_date, end_date) ==
    IF Len(user_df) = 0
    THEN HTTPException(404, <<"No transactions found for this user and date range.">>)
    ELSE IF Truthy(start_date) \/ Truthy(end_date)
    THEN IF ~HasColumn(df, "timestamp")
         THEN HTTPException(400, <<"CSV must contain 'timestamp' column for date filtering.">>)
         ELSE DateFilter(user_id, user_df, start_date, end_date)
    ELSE Statistics(user_id, user_df)

\* Filtered converting the timestamp column of the whole table, before the
\* rows of the user are selected
FilteredConvertAll(df, user_id, user_df, start_date, end_date) ==
    IF Truthy(start_date) \/ Truthy(end_date)
    THEN IF ~HasColumn(df, "timestamp")
         THEN HTTPException(400, <<"CSV must contain 'timestamp' column for date filtering.">>)
         ELSE IF ~to_datetime_col(Column(df.rows, "timestamp")).ok
         THEN HTTPException(400, <<"Error parsing timestamp column: ", "Unknown datetime string format">>)
         ELSE DateFilter(user_id, user_df, start_date, end_date)
    ELSE Statistics(user_id, user_df)

\* lines 77-109: df has the required columns
Filtered(df, user_id, user_df, start_date, end_date) ==
    IF Truthy(start_date) \/ Truthy(end_date)
    THEN IF ~HasColumn(df, "timestamp")
         THEN HTTPException(400, <<"CSV must contain 'timestamp' column for date filtering.">>)
         ELSE DateFilter(user_id, user_df, start_date, end_date)
    ELSE Statistics(user_id, user_df)

\* lines 71-122: a table is present
Summarize(df, user_id, start_date, end_date) ==
    IF ~HasColumn(df, "user_id") \/ ~HasColumn(df, "transaction_amount")
    THEN HTTPException(400, <<"CSV must contain 'user_id' and 'transaction_amount' columns.">>)
    ELSE Filtered(df, user_id, SelectSeq(df.rows, LAMBDA r : r["user_id"] = user_id), start_date, end_date)

\* lines 65-122: the reply of the handler, computed from the global table
SummaryReply(store, user_id, start_date, end_date) ==
    IF store = None
    THEN HTTPException(400, <<"No data uploaded yet.">>)
    ELSE Summarize(store[1], user_id, start_date, end_date)

\* StoreAfterSummary without the copies of lines 71 and 87: line 88 converts
\* the timestamp column of the global table
StoreAfterSummaryInPlace(store, user_id, start_date, end_date) ==
    IF store = None THEN store
    ELSE IF ~HasColumn(store[1], "user_id") \/ ~HasColumn(store[1], "transaction_amount") THEN store
    ELSE IF ~(Truthy(start_date) \/ Truthy(end_date)) \/ ~HasColumn(store[1], "timestamp") THEN store
    ELSE IF ~to_datetime_col(Column(store[1].rows, "timestamp")).ok THEN store
    ELSE Some([store[1] EXCEPT !.rows = SetTimestamps(store[1].rows, to_datetime_col(Column(store[1].rows, "timestamp")).val[1])])

\* lines 71 and 87: df and user_df are copies, so the assignment of line 88
\* lands in a private frame and the global table is left as it was
StoreAfterSummary(store, user_id, start_date, end_date) == store

\* ----------------------------------------------------------- POST /upload
\* line 23
FilenameAccepted(filename) == EndsWith(Lower(filename), DotCsv)

\* an exception raised in the try block leaves the global alone
Failed(detail) == [reply |-> HTTPException(400, detail), table |-> None]

\* Parsed with the required columns checked at upload
ParsedValidating(df) ==
    IF ~df.ok /\ df.exc = "EmptyDataError" THEN Failed(<<"Error reading CSV file: Empty CSV file">>)
    ELSE IF ~df.ok THEN Failed(<<"Error reading CSV file: ", df.msg>>)
    ELSE IF IsEmpty(df.val[1])
    THEN Failed(<<"Error reading CSV file: ">> \o StrHTTP(HTTPException(400, <<"Error reading CSV file: No data found">>)))
    ELSE IF ~HasColumn(df.val[1], "user_id") \/ ~HasColumn(df.val[1], "transaction_amount")
    THEN Failed(<<"Error reading CSV file: ", "missing required columns">>)
    ELSE [reply |-> Reply([message |-> "File uploaded successfully"]), table |-> df.val]

\* Parsed with the assignment of line 45 moved above the check of line 42
ParsedAssignEarly(df) ==
    IF ~df.ok /\ df.exc = "EmptyDataError" THEN Failed(<<"Error reading CSV file: Empty CSV file">>)
    ELSE IF ~df.ok THEN Failed(<<"Error reading CSV file: ", df.msg>>)
    ELSE IF IsEmpty(df.val[1])
    THEN [reply |-> HTTPException(400, <<"Error reading CSV file: ">> \o StrHTTP(HTTPException(400, <<"Error reading CSV file: No data found">>))), table |-> df.val]
    ELSE [reply |-> Reply([message |-> "File uploaded successfully"]), table |-> df.val]

\* lines 41-45 and 53-54: df is the outcome of read_csv
Parsed(df) ==
    IF ~df.ok /\ df.exc = "EmptyDataError" THEN Failed(<<"Error reading CSV file: Empty CSV file">>)
    ELSE IF ~df.ok THEN Failed(<<"Error reading CSV file: ", df.msg>>)
    ELSE IF IsEmpty(df.val[1])
    THEN Failed(<<"Error reading CSV file: ">> \o StrHTTP(HTTPException(400, <<"Error reading CSV file: No data found">>)))
    ELSE [reply |-> Reply([message |-> "File uploaded successfully"]), table |-> df.val]

\* lines 35-39 and 47-48: content_str is the outcome of the decoding
Decoded(content_str) ==
    IF ~content_str.ok THEN Failed(<<"Error reading CSV file: Invalid file encoding">>)
    ELSE Parsed(read_csv(content_str.val[1]))

\* ReadOutcome without the check of line 31
ReadOutcomeNoEmptyCheck(content) == Decoded(decode(content))

\* lines 28-54 after the await: the outcome of the try block on the bytes
\* read; `table` is the frame assigned to the global at line 45, if any.
\* An HTTPException raised inside the try is caught by `except Exception`
\* and raised again with its text appended to the prefix.
ReadOutcome(content) ==
    IF Len(content) = 0
    THEN Failed(<<"Error reading CSV file: ">> \o StrHTTP(HTTPException(400, <<"Error reading CSV file: Empty file">>)))
    ELSE Decoded(decode(content))

\* line 56: the success body carries the file name
WithFilename(reply, filename) == IF reply.status = 200 THEN Reply([filename |-> filename, message |-> reply.body[1].message]) ELSE reply

\* StoreAfterUpload clearing the global when the upload fails
StoreAfterUploadReset(store, outcome) == outcome.table

\* StoreAfterUpload replacing the header but not yet the rows
StoreAfterUploadPartial(store, outcome) ==
    IF outcome.table = None THEN store
    ELSE IF store = None THEN outcome.table
    ELSE Some([columns |-> outcome.table[1].columns, rows |-> store[1].rows])

\* StoreAfterUpload appending the new rows to a table of the same columns
StoreAfterUploadAppend(store, outcome) ==
    IF outcome.table = None THEN store
    ELSE IF store = None THEN outcome.table
    ELSE IF store[1].columns # outcome.table[1].columns THEN outcome.table
    ELSE Some([columns |-> store[1].columns, rows |-> store[1].rows \o outcome.table[1].rows])

\* line 45: the global after the try block
StoreAfterUpload(store, outcome) == IF outcome.table = None THEN store ELSE outcome.table

\* ------------------------------------------------------------------ inputs
Filenames == {<<"a", ".", "c", "s", "v">>, <<"A", ".", "C", "S", "V">>, <<"a", ".", "t", "x", "t">>, <<"c", "s", "v">>}

UploadFiles == BadFiles \cup FixtureTables

\* the summaries the tests request: the users, and the (start, end) pairs
QueryUsers == {101, 201, 999}

QueryRanges ==
    {<<None, None>>,
     <<Some(DateStr(0)), Some(DateStr(24))>>,
     <<Some(DateStr(24)), None>>,
     <<None, Some(DateStr(24))>>,
     <<Some(JunkStr), None>>,
     <<Some(DateStr(8784)), Some(DateStr(17520))>>}

\* the inputs of the summary handler taken alone
UserIds == SampleUsers

DateArgs == {None, Some(EmptyStr), Some(JunkStr)} \cup {Some(DateStr(t)) : t \in 1..MaxTime}

Requests == 1..MaxInFlight

\* ------------------------------------------------------------------- state
VARIABLES uploaded_data, pending, last, ingested, superseded

vars == <<uploaded_data, pending, last, ingested, superseded>>

\* uploaded_data : the global of line 15, None or Some(frame)
\* pending       : per request, None or Some(filename) of an upload suspended
\*                 at `await file.read()`
\* last          : the request completed last, with its reply
\* ingested      : the body of the upload that last returned 200, if any
\* superseded    : the user ids of the tables that a later upload replaced

NoRequest == [content |-> None, end_date |-> None, filename |-> None, op |-> "none",
              reply |-> Reply([message |-> "none"]), start_date |-> None, user_id |-> 0]

UploadDone(filename, content, reply) ==
    [content |-> content, end_date |-> None, filename |-> Some(filename), op |-> "upload",
     reply |-> reply, start_date |-> None, user_id |-> 0]

SummaryDone(user_id, start_date, end_date, reply) ==
    [content |-> None, end_date |-> end_date, filename |-> None, op |-> "summary",
     reply |-> reply, start_date |-> start_date, user_id |-> user_id]

Init ==
    /\ uploaded_data = None
    /\ pending = [p \in Requests |-> None]
    /\ last = NoRequest
    /\ ingested = None
    /\ superseded = {}

\* the user ids of the global table
UsersOf(store) ==
    IF store = None THEN {}
    ELSE IF ~HasColumn(store[1], "user_id") THEN {}
    ELSE {store[1].rows[i]["user_id"] : i \in 1..Len(store[1].rows)}

\* lines 19-28: the extension check, then suspension at the await
upload_file_begin(p, filename) ==
    /\ pending[p] = None
    /\ IF ~FilenameAccepted(filename)
       THEN /\ last' = UploadDone(filename, None, HTTPException(400, <<"Only CSV files are accepted.">>))
            /\ UNCHANGED <<uploaded_data, pending, ingested, superseded>>
       ELSE /\ pending' = [pending EXCEPT ![p] = Some(filename)]
            /\ UNCHANGED <<uploaded_data, last, ingested, superseded>>

\* lines 28-56: the read returns the body; validation, assignment and reply
\* run without another suspension point
upload_file_finish(p, content, outcome) ==
    /\ pending[p] # None
    /\ uploaded_data' = StoreAfterUpload(uploaded_data, outcome)
    /\ last' = UploadDone(pending[p][1], Some(content), WithFilename(outcome.reply, pending[p][1]))
    /\ ingested' = IF outcome.reply.status = 200 THEN Some(content) ELSE ingested
    /\ superseded' = IF outcome.reply.status = 200 THEN superseded \cup UsersOf(uploaded_data) ELSE superseded
    /\ pending' = [pending EXCEPT ![p] = None]

upload_file_resume(p, content) == upload_file_finish(p, content, ReadOutcome(content))

\* lines 60-122: the handler has no suspension point
get_user_summary(user_id, start_date, end_date) ==
    /\ uploaded_data' = StoreAfterSummary(uploaded_data, user_id, start_date, end_date)
    /\ last' = SummaryDone(user_id, start_date, end_date, SummaryReply(uploaded_data, user_id, start_date, end_date))
    /\ UNCHANGED <<pending, ingested, superseded>>

Next ==
    \/ \E p \in Requests, filename \in Filenames : upload_file_begin(p, filename)
    \/ \E p \in Requests, content \in UploadFiles : upload_file_resume(p, content)
    \/ \E user_id \in QueryUsers, range \in QueryRanges : get_user_summary(user_id, range[1], range[2])

Spec == Init /\ [][Next]_vars

\* ---- the summary handler alone: one request, of any inputs, on any table
\* of up to MaxRows rows
\* the frame a well-formed body parses to
TableOf(f) == read_csv(decode(f).val[1]).val[1]

InitSummary ==
    /\ \/ uploaded_data = None /\ ingested = None
       \/ \E f \in TableFiles(MaxRows) : uploaded_data = Some(TableOf(f)) /\ ingested = Some(f)
    /\ pending = [p \in Requests |-> None]
    /\ last = NoRequest
    /\ superseded = {}

NextSummary == last = NoRequest /\ \E user_id \in UserIds, start_date \in DateArgs, end_date \in DateArgs : get_user_summary(user_id, start_date, end_date)

SpecSummary == InitSummary /\ [][NextSummary]_vars

\* =================================================================== claims
\* vocabulary of the specification, read off a reply
Step(reply) ==
    IF reply.status = 200 THEN "ok"
    ELSE IF reply.status = 404 THEN "rows"
    ELSE CASE reply.detail[1] = "No data uploaded yet." -> "table"
           [] reply.detail[1] = "CSV must contain 'user_id' and 'transaction_amount' columns." -> "columns"
           [] reply.detail[1] = "CSV must contain 'timestamp' column for date filtering." -> "timestamp column"
           [] reply.detail[1] = "Error parsing timestamp column: " -> "timestamp values"
           [] reply.detail[1] = "Invalid start_date format: " -> "start"
           [] reply.detail[1] = "Invalid end_date format: " -> "end"
           [] OTHER -> "other"

\* the error names of the specification; the reply to a timestamp that does
\* not parse has none
Kind(reply) ==
    CASE Step(reply) = "ok" -> "ok"
      [] Step(reply) = "rows" -> "NotFoundError"
      [] Step(reply) = "table" -> "NoDataError"
      [] Step(reply) \in {"columns", "timestamp column"} -> "SchemaError"
      [] Step(reply) \in {"start", "end"} -> "InvalidDateError"
      [] Step(reply) = "timestamp values" -> "TimestampError"
      [] OTHER -> "other"

IsDate(s) == Len(s) = 2 /\ s[1] = "date"

\* a bound that is a date
DateBound(b) == b # None /\ IsDate(b[1])

\* a non-empty bound that is no date
BadBound(b) == b # None /\ b[1] # EmptyStr /\ ~IsDate(b[1])

\* a bound that is a non-empty string
Supplied(b) == b # None /\ b[1] # EmptyStr

\* a bound that is absent or a date
GoodBound(b) == b = None \/ DateBound(b)

Required(df) == HasColumn(df, "user_id") /\ HasColumn(df, "transaction_amount")

\* the rows of user u (indices into df.rows)
UserRows(df, u) == {i \in 1..Len(df.rows) : df.rows[i]["user_id"] = u}

\* row i lies within the bounds that are dates, both ends inclusive
InRange(df, i, s, e) ==
    /\ DateBound(s) => IsDate(df.rows[i]["timestamp"]) /\ s[1][2] <= df.rows[i]["timestamp"][2]
    /\ DateBound(e) => IsDate(df.rows[i]["timestamp"]) /\ df.rows[i]["timestamp"][2] <= e[1][2]

Matching(df, u, s, e) == {i \in UserRows(df, u) : InRange(df, i, s, e)}

\* some row of user u has a timestamp that is no date
UnparseableRow(df, u) == \E i \in UserRows(df, u) : ~IsDate(df.rows[i]["timestamp"])

RECURSIVE SumOver(_, _)
SumOver(df, I) == IF I = {} THEN 0 ELSE LET i == CHOOSE j \in I : TRUE IN df.rows[i]["transaction_amount"] + SumOver(df, I \ {i})

Amounts(df, I) == {df.rows[i]["transaction_amount"] : i \in I}

UploadTables == FixtureTables

AllColumns(df) == Required(df) /\ HasColumn(df, "timestamp")

IsSummary == last.op = "summary"

IsUpload == last.op = "upload"

\* the summary replied to last had a table with the required columns, bounds
\* that are absent or dates, and a timestamp column if a bound is given
WellPosed ==
    /\ IsSummary /\ uploaded_data # None /\ Required(uploaded_data[1])
    /\ GoodBound(last.start_date) /\ GoodBound(last.end_date)
    /\ (DateBound(last.start_date) \/ DateBound(last.end_date)) => HasColumn(uploaded_data[1], "timestamp")

\* ------------------------------------------------------------------------
\* C1: the table store holds exactly the parsed content of the most recent
\* successful ingest (absent before the first), nothing of earlier ingests;
\* a summary for a user who has no row in that content is NotFoundError.
C1_ReplacedInFull ==
    /\ uploaded_data = (IF ingested = None THEN None ELSE Some(TableOf(ingested[1])))
    /\ (WellPosed /\ UserRows(TableOf(ingested[1]), last.user_id) = {}) => Kind(last.reply) = "NotFoundError"

\* a summary for a user who was in a replaced table and is not in the current one
C1_Witness ==
    /\ WellPosed /\ ingested # None
    /\ last.user_id \in superseded
    /\ UserRows(TableOf(ingested[1]), last.user_id) = {}
    /\ Kind(last.reply) = "NotFoundError"

\* C2: an ingest that fails, for whatever reason, leaves the table store as
\* it was before the call (the same table, or still absent).
C2_FailedIngestKeepsStore == [][(last'.op = "upload" /\ last'.reply.status # 200) => uploaded_data' = uploaded_data]_vars

\* a header-only body was rejected while a table was present
C2_Witness ==
    /\ IsUpload /\ last.reply.status = 400 /\ last.content # None
    /\ last.content[1] \in HeaderOnlyFiles
    /\ uploaded_data # None

\* C3: a successful summary reports the count, maximum, minimum and mean of
\* the amounts of exactly the rows of the user whose timestamp lies within
\* the given bounds, both inclusive; without bounds, of all rows of the user.
\* (An empty-string bound is no date and restricts nothing.)
C3Holds(df, b, M, all) ==
    /\ M # {}
    /\ b.user_id = last.user_id
    /\ b.count = Cardinality(M)
    /\ b.max_transaction_amount \in Amounts(df, M) /\ \A a \in Amounts(df, M) : a <= b.max_transaction_amount
    /\ b.min_transaction_amount \in Amounts(df, M) /\ \A a \in Amounts(df, M) : a >= b.min_transaction_amount
    /\ b.mean_transaction_amount.den > 0
    /\ b.mean_transaction_amount.num * Cardinality(M) = SumOver(df, M) * b.mean_transaction_amount.den
    /\ (last.start_date = None /\ last.end_date = None) => M = all

C3_Statistics ==
    (IsSummary /\ last.reply.status = 200) =>
        C3Holds(uploaded_data[1], last.reply.body[1],
                Matching(uploaded_data[1], last.user_id, last.start_date, last.end_date),
                UserRows(uploaded_data[1], last.user_id))

\* two rows counted, of different amounts, one of them dated on the start bound
C3_Witness ==
    /\ IsSummary /\ last.reply.status = 200
    /\ last.reply.body[1].count = 2
    /\ last.reply.body[1].max_transaction_amount # last.reply.body[1].min_transaction_amount
    /\ DateBound(last.start_date)
    /\ \E i \in UserRows(uploaded_data[1], last.user_id) : uploaded_data[1].rows[i]["timestamp"] = last.start_date[1]

\* C4 as stated: with a table that has the required columns, bounds that are
\* absent or dates and a timestamp column if a bound is given, the summary
\* is NotFoundError exactly when no row matches the user and the range, and
\* a success never has count 0.
C4_Original ==
    /\ WellPosed => (Kind(last.reply) = "NotFoundError" <=> Matching(uploaded_data[1], last.user_id, last.start_date, last.end_date) = {})
    /\ (IsSummary /\ last.reply.status = 200) => last.reply.body[1].count > 0

\* C4 (amended): under the same conditions, if a bound is given and a row of
\* the user has a timestamp that does not parse, the summary fails with the
\* 400 reply "Error parsing timestamp column"; otherwise it is NotFoundError
\* (404) exactly when no row matches the user and the range, and succeeds
\* when one does.  A success never has count 0.
C4Cases(df, reply, M) ==
    IF (DateBound(last.start_date) \/ DateBound(last.end_date)) /\ UnparseableRow(df, last.user_id)
    THEN reply.status = 400 /\ Kind(reply) = "TimestampError"
    ELSE /\ Kind(reply) = "NotFoundError" <=> M = {}
         /\ Kind(reply) = "NotFoundError" => reply.status = 404
         /\ M # {} => reply.status = 200

C4_Amended ==
    /\ WellPosed => C4Cases(uploaded_data[1], last.reply, Matching(uploaded_data[1], last.user_id, last.start_date, last.end_date))
    /\ (IsSummary /\ last.reply.status = 200) => last.reply.body[1].count > 0

\* the user has rows, all dated, and none within the range: 404
C4_Witness ==
    /\ WellPosed /\ DateBound(last.start_date)
    /\ UserRows(uploaded_data[1], last.user_id) # {}
    /\ ~UnparseableRow(uploaded_data[1], last.user_id)
    /\ Matching(uploaded_data[1], last.user_id, last.start_date, last.end_date) = {}
    /\ last.reply.status = 404

\* C5: schema is checked on read, not on write: a well-formed non-empty
\* table without user_id or transaction_amount is accepted and replaces the
\* table store, and every summary, whatever the user and the bounds, is
\* SchemaError for as long as that table is the current one.
C5_SchemaOnRead ==
    /\ (IsUpload /\ last.content # None /\ last.content[1] \in UploadTables /\ ~Required(TableOf(last.content[1])))
           => (last.reply.status = 200 /\ uploaded_data = Some(TableOf(last.content[1])))
    /\ (IsSummary /\ ingested # None /\ ~Required(TableOf(ingested[1])))
           => (last.reply.status = 400 /\ Kind(last.reply) = "SchemaError")

\* a summary with a start date on an ingested table that has no amounts
C5_Witness ==
    /\ IsSummary /\ ingested # None
    /\ ~HasColumn(TableOf(ingested[1]), "transaction_amount")
    /\ HasColumn(TableOf(ingested[1]), "user_id")
    /\ DateBound(last.start_date)
    /\ Kind(last.reply) = "SchemaError"

\* C6: the table store is absent exactly until the first successful ingest:
\* it starts absent, a summary before that ingest is NoDataError, and after
\* it the table is never absent again and no summary is NoDataError.
C6_AbsentUntilFirstIngest ==
    /\ uploaded_data = None <=> ingested = None
    /\ last = NoRequest => uploaded_data = None
    /\ (IsSummary /\ ingested = None) => (last.reply.status = 400 /\ Kind(last.reply) = "NoDataError")
    /\ (IsSummary /\ ingested # None) => Kind(last.reply) # "NoDataError"

\* an upload failed after an earlier one had succeeded
C6_Witness ==
    /\ IsUpload /\ last.reply.status # 200 /\ last.content # None
    /\ ingested # None /\ uploaded_data # None

\* C7 as stated: on a table with the three columns, a non-empty bound that
\* is no date always fails with InvalidDateError (400).
C7_Original ==
    (IsSummary /\ uploaded_data # None /\ AllColumns(uploaded_data[1]) /\ (BadBound(last.start_date) \/ BadBound(last.end_date)))
        => (last.reply.status = 400 /\ Kind(last.reply) = "InvalidDateError")

\* C7 (amended): on a table with the three columns, a non-empty bound that
\* is no date always fails with a 400 reply, never a success and never a
\* NotFoundError: InvalidDateError if every timestamp of the user's rows
\* parses, the reply "Error parsing timestamp column" if one does not.  An
\* empty-string bound is treated as an absent one.
Present(b) == IF b = Some(EmptyStr) THEN None ELSE b

C7_Amended ==
    /\ (IsSummary /\ uploaded_data # None /\ AllColumns(uploaded_data[1]) /\ (BadBound(last.start_date) \/ BadBound(last.end_date)))
           => /\ last.reply.status = 400
              /\ Kind(last.reply) = (IF UnparseableRow(uploaded_data[1], last.user_id) THEN "TimestampError" ELSE "InvalidDateError")
    /\ IsSummary => last.reply = SummaryReply(uploaded_data, last.user_id, Present(last.start_date), Present(last.end_date))

\* a start bound that is no date, for a user whose rows are all dated
C7_Witness ==
    /\ IsSummary /\ uploaded_data # None /\ AllColumns(uploaded_data[1])
    /\ BadBound(last.start_date) /\ last.end_date = None
    /\ UserRows(uploaded_data[1], last.user_id) # {}
    /\ Kind(last.reply) = "InvalidDateError"

\* C8: a summary, whatever its inputs and its outcome, leaves the table
\* store as it was, the timestamp values included.
C8_SummaryKeepsStore == [][last'.op = "summary" => uploaded_data' = uploaded_data]_vars

\* a date-filtered summary succeeded and the stored timestamps are still text
C8_Witness ==
    /\ IsSummary /\ last.reply.status = 200 /\ DateBound(last.start_date)
    /\ \A i \in 1..Len(uploaded_data[1].rows) : IsDate(uploaded_data[1].rows[i]["timestamp"])

\* C9: whatever the interleaving of uploads suspended at their read and of
\* summaries, the table store is absent or the whole table of one validated
\* body, and a summary is computed from that one table.
C9_OneWholeTable ==
    /\ uploaded_data = None \/ \E f \in UploadTables : uploaded_data = Some(TableOf(f))
    /\ IsSummary => last.reply = SummaryReply(uploaded_data, last.user_id, last.start_date, last.end_date)

\* a summary served from a table while two uploads are suspended
C9_Witness ==
    /\ IsSummary /\ uploaded_data # None /\ last.reply.status = 200
    /\ \E p, q \in Requests : p # q /\ pending[p] # None /\ pending[q] # None

\* C10 as stated: the first failing condition, in the order table absent,
\* required column missing, timestamp column missing with a bound supplied,
\* start bound no date, end bound no date, no matching row.
ClaimedStep(store, u, s, e) ==
    IF store = None THEN "table"
    ELSE IF ~Required(store[1]) THEN "columns"
    ELSE IF (Supplied(s) \/ Supplied(e)) /\ ~HasColumn(store[1], "timestamp") THEN "timestamp column"
    ELSE IF BadBound(s) THEN "start"
    ELSE IF BadBound(e) THEN "end"
    ELSE IF Matching(store[1], u, s, e) = {} THEN "rows"
    ELSE "ok"

C10_Original == IsSummary => Step(last.reply) = ClaimedStep(uploaded_data, last.user_id, last.start_date, last.end_date)

\* C10 (amended): the same order with one more condition, checked after the
\* timestamp column and before the bounds: with a bound supplied, a row of
\* the user whose timestamp does not parse ("Error parsing timestamp
\* column", 400).  A bound is supplied when it is a non-empty string.
ActualStep(store, u, s, e) ==
    IF store = None THEN "table"
    ELSE IF ~Required(store[1]) THEN "columns"
    ELSE IF (Supplied(s) \/ Supplied(e)) /\ ~HasColumn(store[1], "timestamp") THEN "timestamp column"
    ELSE IF (Supplied(s) \/ Supplied(e)) /\ UnparseableRow(store[1], u) THEN "timestamp values"
    ELSE IF BadBound(s) THEN "start"
    ELSE IF BadBound(e) THEN "end"
    ELSE IF Matching(store[1], u, s, e) = {} THEN "rows"
    ELSE "ok"

C10_Amended == IsSummary => Step(last.reply) = ActualStep(uploaded_data, last.user_id, last.start_date, last.end_date)

\* a bound on a table without timestamps, for a user without rows
C10_Witness ==
    /\ IsSummary /\ uploaded_data # None /\ Required(uploaded_data[1])
    /\ ~HasColumn(uploaded_data[1], "timestamp")
    /\ Supplied(last.start_date)
    /\ UserRows(uploaded_data[1], last.user_id) = {}
    /\ Kind(last.reply) = "SchemaError"

\* the error names of the specification for ingest, read off a reply
UploadKind(reply) ==
    IF reply.status = 200 THEN "ok"
    ELSE CASE reply.detail[1] = "Only CSV files are accepted." -> "UnsupportedFormat"
           [] reply.detail[Len(reply.detail)] = "Error reading CSV file: Empty file" -> "EmptyInput"
           [] reply.detail[1] = "Error reading CSV file: Invalid file encoding" -> "EncodingError"
           [] reply.detail[Len(reply.detail)] = "Error reading CSV file: No data found" -> "EmptyTable"
           [] reply.detail[1] \in {"Error reading CSV file: Empty CSV file", "Error reading CSV file: "} -> "ParseError"
           [] OTHER -> "other"

\* the lines of a body that are not blank
TextLines(content) == SelectSeq(content, LAMBDA l : Len(l) > 0)

Undecodable(content) == \E i \in 1..Len(content) : \E j \in 1..Len(content[i]) : content[i][j] = BadByte

\* no header line, or a line with more cells than the header
Malformed(content) == TextLines(content) = <<>> \/ \E i \in 2..Len(TextLines(content)) : Len(TextLines(content)[i]) > Len(TextLines(content)[1])

\* the first check that fails, in the order of the claim; body is None when
\* the request was answered before its content was read
ClaimedIngestStep(filename, body) ==
    IF ~EndsWith(Lower(filename), DotCsv) THEN "UnsupportedFormat"
    ELSE IF body = None THEN "unread"
    ELSE IF Len(body[1]) = 0 THEN "EmptyInput"
    ELSE IF Undecodable(body[1]) THEN "EncodingError"
    ELSE IF Malformed(body[1]) THEN "ParseError"
    ELSE IF Len(TextLines(body[1])) = 1 THEN "EmptyTable"
    ELSE "ok"

\* ------------------------------------------------------------------------
\* C11: ingest checks, in this order, the filename extension (compared
\* case-insensitively), non-empty bytes, UTF-8 decoding, CSV parsing and at
\* least one data row, and reports the first check that fails: a filename
\* not ending in .csv is UnsupportedFormat before any content is read, empty
\* content with a .csv filename is EmptyInput, a header-only CSV is
\* EmptyTable; every failure is a 400.
C11_IngestOrder ==
    IsUpload =>
        /\ UploadKind(last.reply) = ClaimedIngestStep(last.filename[1], last.content)
        /\ last.content = None <=> UploadKind(last.reply) = "UnsupportedFormat"
        /\ last.reply.status \in {200, 400}

\* a header-only body under an upper-case .CSV name is EmptyTable
C11_Witness ==
    /\ IsUpload /\ last.filename = Some(<<"A", ".", "C", "S", "V">>)
    /\ last.content # None /\ last.content[1] \in HeaderOnlyFiles
    /\ UploadKind(last.reply) = "EmptyTable" /\ last.reply.status = 400

\* ------------------------------------------------------------------------
\* the summary replied to last had a table with the three columns, a bound
\* that is a date, no bound that is not, and a row of the user whose
\* timestamp does not parse
DatedWithUnparseable ==
    /\ WellPosed /\ (DateBound(last.start_date) \/ DateBound(last.end_date))
    /\ UnparseableRow(uploaded_data[1], last.user_id)

\* C12 as stated: with a date bound supplied, a row of the requested user
\* whose timestamp does not parse is left out of the filtered rows and the
\* summary still returns the statistics of the user's remaining rows in range.
C12_Original ==
    (DatedWithUnparseable /\ Matching(uploaded_data[1], last.user_id, last.start_date, last.end_date) # {})
        => /\ last.reply.status = 200
           /\ last.reply.body[1].count = Cardinality(Matching(uploaded_data[1], last.user_id, last.start_date, last.end_date))

\* C12 (amended): with a non-empty bound supplied on a table with the three
\* columns, a row of the requested user whose timestamp does not parse makes
\* the summary fail with the 400 reply "Error parsing timestamp column",
\* whatever the user's other rows and whether or not the bounds are dates;
\* no row is left out and no statistics are returned.
C12_Amended ==
    (IsSummary /\ uploaded_data # None /\ AllColumns(uploaded_data[1])
       /\ (Supplied(last.start_date) \/ Supplied(last.end_date))
       /\ UnparseableRow(uploaded_data[1], last.user_id))
        => /\ last.reply.status = 400
           /\ last.reply.detail[1] = "Error parsing timestamp column: "
           /\ last.reply.body = <<>>

\* the user has a row that does not parse and another one within the range
C12_Witness ==
    /\ DatedWithUnparseable
    /\ Matching(uploaded_data[1], last.user_id, last.start_date, last.end_date) # {}
    /\ last.reply.status = 400 /\ Kind(last.reply) = "TimestampError"

\* ------------------------------------------------------------------------
\* tables that differ from df in timestamps only
\* row i with the timestamp v
WithTimestamp(df, i, v) == [df EXCEPT !.rows[i]["timestamp"] = v]

\* every row with the timestamp f gives it
Retimed(df, f) == [df EXCEPT !.rows = [i \in 1..Len(df.rows) |-> [df.rows[i] EXCEPT !["timestamp"] = f[i]]]]

\* the table without its timestamp column
DropTimestamp(df) ==
    [columns |-> SelectSeq(df.columns, LAMBDA c : c # "timestamp"),
     rows |-> [i \in 1..Len(df.rows) |-> [c \in (DOMAIN df.rows[i]) \ {"timestamp"} |-> df.rows[i][c]]]]

\* the rows of the users other than u
OtherRows(df, u) == {i \in 1..Len(df.rows) : df.rows[i]["user_id"] # u}

\* the summary with the inputs of the one replied to last, on table df
SameRequestOn(df) == SummaryReply(Some(df), last.user_id, last.start_date, last.end_date)

\* C13: timestamps are parsed in the rows of the requested user only, and
\* only when a bound is supplied: replacing the timestamp of a row of another
\* user by one that does not parse leaves the reply as it is, and when no
\* bound is supplied the reply is the same whatever the timestamp values are
\* and whether or not the table has a timestamp column.
C13_TimestampsConfined ==
    (IsSummary /\ uploaded_data # None) =>
        /\ (HasColumn(uploaded_data[1], "user_id") /\ HasColumn(uploaded_data[1], "timestamp"))
               => \A i \in OtherRows(uploaded_data[1], last.user_id) :
                      SameRequestOn(WithTimestamp(uploaded_data[1], i, JunkStr)) = last.reply
        /\ (~Supplied(last.start_date) /\ ~Supplied(last.end_date) /\ HasColumn(uploaded_data[1], "timestamp"))
               => /\ \A f \in [1..Len(uploaded_data[1].rows) -> CellValues("timestamp")] :
                         SameRequestOn(Retimed(uploaded_data[1], f)) = last.reply
                  /\ Len(uploaded_data[1].columns) > 1 => SameRequestOn(DropTimestamp(uploaded_data[1])) = last.reply

\* a date-filtered summary succeeded for one user although a row of another
\* user has a timestamp that does not parse
C13_Witness ==
    /\ IsSummary /\ uploaded_data # None /\ AllColumns(uploaded_data[1])
    /\ DateBound(last.start_date) /\ last.reply.status = 200
    /\ \E i \in OtherRows(uploaded_data[1], last.user_id) : ~IsDate(uploaded_data[1].rows[i]["timestamp"])

====
